---- MODULE Spec2Model ----
(***************************************************************************)
(* Model of the SVG render service (src/app/main.py, src/app/config.py).   *)
(*                                                                         *)
(* Lengths are Python floats in the source.  They are modelled as exact    *)
(* rationals <<n, d>> with d > 0 in lowest terms, so that the comparisons, *)
(* the scale divisions and the rounding of _compute_scale are computed as  *)
(* the code computes them (up to floating point error).                    *)
(* Strings are sequences of one-character strings.                         *)
(***************************************************************************)
EXTENDS Integers, Sequences, FiniteSets, TLC

VARIABLES
    settings,    \* config.Settings: the fields the handlers read
    doc,         \* the root element's attributes: width, height, viewBox
    intrinsic,   \* _extract_svg_dimensions' result (width, height), or NoSize
    target,      \* _compute_scale's result (scaled_width, scaled_height), or NoSize
    pc,          \* position of the /render handler
    req,         \* the request: the API key header and the svg_url payload
    http,        \* the remote server's answer: status and Content-Length
    buffer,      \* _fetch_svg's BytesIO: bytes held, whether a non-blank byte is in it
    chunksRead,  \* body chunks taken from response.iter_content so far
    exc,         \* the exception in flight in render_svg's try block, or "none"
    rasterized,  \* svg2png has been called for this request
    uploaded,    \* upload_from_string has stored this request's object
    signed,      \* generate_signed_url has returned this request's URL
    pruneRan,    \* _prune_old_files has been entered
    now,         \* datetime.now(timezone.utc) taken by render_svg
    yielded,     \* blobs list_blobs has yielded in this pass
    lastBlob,    \* the blob of the last loop iteration of _prune_old_files
    deleted,     \* _prune_old_files' counter
    storeDeletes,\* deletes the object store has performed in this pass
    listFailed,  \* list_blobs raised during this pass
    deleteFailed,\* blob.delete raised during this pass
    response     \* the HTTP response of /render, or NoResponse

vars == <<settings, doc, intrinsic, target, pc, req, http, buffer, chunksRead,
          exc, rasterized, uploaded, signed, pruneRan, now, yielded, lastBlob,
          deleted, storeDeletes, listFailed, deleteFailed, response>>

(***************************************************************************)
(* Bounds of the model.                                                    *)
(***************************************************************************)
MaxBound == 4      \* output bounds are drawn from 1..MaxBound
MaxNum == 5        \* intrinsic lengths have numerators in -1..MaxNum
MaxDen == 2        \* and denominators in 1..MaxDen
MaxChunks == 3     \* body chunks one fetch reads
MaxBlobs == 2      \* blobs one listing yields
MaxTime == 3       \* timestamps are drawn from 0..MaxTime

(***************************************************************************)
(* Rationals.                                                              *)
(***************************************************************************)
Abs(x) == IF x < 0 THEN -x ELSE x

RECURSIVE GCD(_, _)
GCD(a, b) == IF b = 0 THEN a ELSE GCD(b, a % b)

Norm(n, d) ==
    LET g == GCD(Abs(n), Abs(d))
        s == IF d < 0 THEN -1 ELSE 1
    IN  IF n = 0 THEN <<0, 1>> ELSE <<s * (n \div g), s * (d \div g)>>

Rat(i) == <<i, 1>>
RMul(a, b) == Norm(a[1] * b[1], a[2] * b[2])
RDiv(a, b) == Norm(a[1] * b[2], a[2] * b[1])
RLt(a, b) == a[1] * b[2] < b[1] * a[2]
RLe(a, b) == a[1] * b[2] <= b[1] * a[2]
RMax(a, b) == IF RLt(a, b) THEN b ELSE a
IntMax(a, b) == IF a < b THEN b ELSE a

\* Python's round() on a float: to the nearest integer, a tie to the even one.
Round(a) ==
    LET q == a[1] \div a[2]
        r == a[1] % a[2]
    IN  IF 2 * r < a[2] THEN q
        ELSE IF 2 * r > a[2] THEN q + 1
        ELSE IF q % 2 = 0 THEN q ELSE q + 1

NoSize == <<>>

(***************************************************************************)
(* _compute_scale (main.py 89-108).                                        *)
(***************************************************************************)
\* Mutant: the degenerate case returns the fallback canvas at once.
ComputeScaleEarlyReturn(width, height, s) ==
    LET degenerate == RLe(width, Rat(0)) \/ RLe(height, Rat(0))
        scale1 == IF RLt(width, Rat(s.min_output_width))
                  THEN RMax(Rat(1), RDiv(Rat(s.min_output_width), width)) ELSE Rat(1)
        scale2 == IF RLt(Rat(s.max_output_width), RMul(width, scale1))
                  THEN RDiv(Rat(s.max_output_width), width) ELSE scale1
        scale3 == IF RLt(Rat(s.max_output_height), RMul(height, scale2))
                  THEN RDiv(Rat(s.max_output_height), height) ELSE scale2
    IN  IF degenerate
        THEN <<s.min_output_width, s.min_output_width>>
        ELSE <<IntMax(1, Round(RMul(width, scale3))),
               IntMax(1, Round(RMul(height, scale3)))>>

\* Mutant: the degenerate case substitutes the width only.
ComputeScaleWidthOnly(width, height, s) ==
    LET degenerate == RLe(width, Rat(0)) \/ RLe(height, Rat(0))
        w == IF degenerate THEN Rat(s.min_output_width) ELSE width
        scale1 == IF RLt(w, Rat(s.min_output_width))
                  THEN RMax(Rat(1), RDiv(Rat(s.min_output_width), w)) ELSE Rat(1)
        scale2 == IF RLt(Rat(s.max_output_width), RMul(w, scale1))
                  THEN RDiv(Rat(s.max_output_width), w) ELSE scale1
        scale3 == IF RLt(Rat(s.max_output_height), RMul(height, scale2))
                  THEN RDiv(Rat(s.max_output_height), height) ELSE scale2
    IN  <<IntMax(1, Round(RMul(w, scale3))), IntMax(1, Round(RMul(height, scale3)))>>

_compute_scale(width, height, s) ==
    LET degenerate == RLe(width, Rat(0)) \/ RLe(height, Rat(0))
        w == IF degenerate THEN Rat(s.min_output_width) ELSE width
        h == IF degenerate THEN Rat(s.min_output_width) ELSE height
        scale1 == IF RLt(w, Rat(s.min_output_width))
                  THEN RMax(Rat(1), RDiv(Rat(s.min_output_width), w)) ELSE Rat(1)
        scale2 == IF RLt(Rat(s.max_output_width), RMul(w, scale1))
                  THEN RDiv(Rat(s.max_output_width), w) ELSE scale1
        scale3 == IF RLt(Rat(s.max_output_height), RMul(h, scale2))
                  THEN RDiv(Rat(s.max_output_height), h) ELSE scale2
    IN  <<IntMax(1, Round(RMul(w, scale3))), IntMax(1, Round(RMul(h, scale3)))>>

(***************************************************************************)
(* Strings: sequences of one-character strings.                            *)
(***************************************************************************)
Digits == <<"0", "1", "2", "3", "4", "5", "6", "7", "8", "9">>

IsDigit(c) == \E i \in 1..10 : Digits[i] = c
DigitVal(c) == (CHOOSE i \in 1..10 : Digits[i] = c) - 1

\* Python's \s and str.strip(): the blanks of the model's alphabet.
IsSpace(c) == c \in {" ", "\t", "\n"}

\* str.lower() on the letters of the model's alphabet.
Lower(c) ==
    CASE c = "P" -> "p"
      [] c = "T" -> "t"
      [] c = "X" -> "x"
      [] c = "M" -> "m"
      [] c = "C" -> "c"
      [] c = "I" -> "i"
      [] c = "N" -> "n"
      [] OTHER -> c

LowerStr(s) == [i \in 1..Len(s) |-> Lower(s[i])]

\* The first index >= i of s that holds no blank (Len(s) + 1 if none).
RECURSIVE SkipSpace(_, _)
SkipSpace(s, i) ==
    IF i <= Len(s) /\ IsSpace(s[i]) THEN SkipSpace(s, i + 1) ELSE i

\* The index after the longest run of digits of s that starts at i.
RECURSIVE DigitsEnd(_, _)
DigitsEnd(s, i) ==
    IF i <= Len(s) /\ IsDigit(s[i]) THEN DigitsEnd(s, i + 1) ELSE i

\* The last index <= i of s that holds no blank (0 if none).
RECURSIVE LastNonSpace(_, _)
LastNonSpace(s, i) ==
    IF i >= 1 /\ IsSpace(s[i]) THEN LastNonSpace(s, i - 1) ELSE i

\* str.strip()
Strip(s) ==
    LET a == SkipSpace(s, 1)
        b == LastNonSpace(s, Len(s))
    IN  IF a > b THEN <<>> ELSE SubSeq(s, a, b)

\* The value of the digits s[i..j-1] read as a decimal integer.
RECURSIVE DecVal(_, _, _)
DecVal(s, i, j) ==
    IF i >= j THEN 0 ELSE DecVal(s, i, j - 1) * 10 + DigitVal(s[j - 1])

RECURSIVE Pow10(_)
Pow10(k) == IF k = 0 THEN 1 ELSE 10 * Pow10(k - 1)

(***************************************************************************)
(* _LENGTH_RE (main.py 45): ^\s*([-+]?\d*\.?\d+)                           *)
(* The match is a record [ok, first, last]: group 1 is s[first..last-1]    *)
(* and match.end() is last - 1.  With backtracking, group 1 is the sign,   *)
(* then digits "." digits if the fraction has a digit, else the digits.    *)
(***************************************************************************)
LengthMatch(s) ==
    LET i0 == SkipSpace(s, 1)
        signed_ == i0 <= Len(s) /\ s[i0] \in {"-", "+"}
        i1 == IF signed_ THEN i0 + 1 ELSE i0
        i2 == DigitsEnd(s, i1)
        i3 == IF i2 <= Len(s) /\ s[i2] = "." THEN DigitsEnd(s, i2 + 1) ELSE i2
        frac == i3 > i2 + 1
    IN  IF frac THEN [ok |-> TRUE, first |-> i0, dot |-> i2, last |-> i3]
        ELSE IF i2 > i1 THEN [ok |-> TRUE, first |-> i0, dot |-> i2, last |-> i2]
        ELSE [ok |-> FALSE, first |-> i0, dot |-> i0, last |-> i0]

\* float(match.group(1))
MatchValue(s, m) ==
    LET neg == s[m.first] = "-"
        i1 == IF s[m.first] \in {"-", "+"} THEN m.first + 1 ELSE m.first
        whole == DecVal(s, i1, m.dot)
        fdigits == IF m.last > m.dot THEN m.last - m.dot - 1 ELSE 0
        fracv == IF fdigits > 0 THEN DecVal(s, m.dot + 1, m.last) ELSE 0
        num == whole * Pow10(fdigits) + fracv
    IN  Norm(IF neg THEN -num ELSE num, Pow10(fdigits))

(***************************************************************************)
(* _SVG_UNIT_TO_PX (main.py 36-44).                                        *)
(***************************************************************************)
KnownUnits == {<<>>, <<"p", "x">>, <<"p", "t">>, <<"p", "c">>, <<"m", "m">>,
               <<"c", "m">>, <<"i", "n">>}

_SVG_UNIT_TO_PX(unit) ==
    CASE unit = <<>> -> Rat(1)
      [] unit = <<"p", "x">> -> Rat(1)
      [] unit = <<"p", "t">> -> Norm(96, 72)
      [] unit = <<"p", "c">> -> Rat(16)
      [] unit = <<"m", "m">> -> Norm(960, 254)
      [] unit = <<"c", "m">> -> Norm(9600, 254)
      [] unit = <<"i", "n">> -> Rat(96)

(***************************************************************************)
(* _parse_svg_length (main.py 111-128).  An attribute is a record          *)
(* [present, text]: tree.get returns None for an absent attribute.         *)
(***************************************************************************)
Absent == [present |-> FALSE, text |-> <<>>]
Attr(s) == [present |-> TRUE, text |-> s]

_parse_svg_length(raw_value) ==
    IF ~raw_value.present \/ raw_value.text = <<>> THEN Rat(0)
    ELSE LET s == raw_value.text
             m == LengthMatch(s)
         IN  IF ~m.ok THEN Rat(0)
             ELSE LET value == MatchValue(s, m)
                      unit == LowerStr(Strip(SubSeq(s, m.last, Len(s))))
                  IN  IF unit # <<>> /\ unit[Len(unit)] = "%" THEN Rat(0)
                      ELSE IF unit \in KnownUnits
                           THEN RMul(value, _SVG_UNIT_TO_PX(unit))
                           ELSE value

(***************************************************************************)
(* _extract_svg_dimensions (main.py 131-145).                              *)
(***************************************************************************)
IsSep(c) == IsSpace(c) \/ c = ","

\* The index after the longest run of non-separators of s that starts at i.
RECURSIVE TokenEnd(_, _)
TokenEnd(s, i) ==
    IF i <= Len(s) /\ ~IsSep(s[i]) THEN TokenEnd(s, i + 1) ELSE i

\* [part for part in re.split(r"[\s,]+", s) if part], from index i on.
RECURSIVE SplitFrom(_, _)
SplitFrom(s, i) ==
    IF i > Len(s) THEN <<>>
    ELSE IF IsSep(s[i]) THEN SplitFrom(s, i + 1)
    ELSE <<SubSeq(s, i, TokenEnd(s, i) - 1)>> \o SplitFrom(s, TokenEnd(s, i))

Components(view_box) == SplitFrom(Strip(view_box), 1)

\* Mutant: the viewBox overrides the attributes whenever it has four tokens.
ExtractViewBoxFirst(tree) ==
    LET width == _parse_svg_length(tree.width)
        height == _parse_svg_length(tree.height)
        view_box == tree.viewBox
        components == Components(view_box.text)
        usable == view_box.present /\ view_box.text # <<>> /\ Len(components) = 4
    IN  <<IF usable THEN _parse_svg_length(Attr(components[3])) ELSE width,
          IF usable THEN _parse_svg_length(Attr(components[4])) ELSE height>>

_extract_svg_dimensions(tree) ==
    LET width == _parse_svg_length(tree.width)
        height == _parse_svg_length(tree.height)
        view_box == tree.viewBox
        components == Components(view_box.text)
        usable == view_box.present /\ view_box.text # <<>> /\ Len(components) = 4
    IN  <<IF usable /\ RLe(width, Rat(0))
          THEN _parse_svg_length(Attr(components[3])) ELSE width,
          IF usable /\ RLe(height, Rat(0))
          THEN _parse_svg_length(Attr(components[4])) ELSE height>>

(***************************************************************************)
(* Inputs.                                                                 *)
(***************************************************************************)
\* config.Settings (config.py 21-37): the fields read by main.py.
OutputBounds == 1..MaxBound

LengthAttrs ==
    { Absent,
      Attr(<<>>),
      Attr(<<"3">>),
      Attr(<<"0">>),
      Attr(<<"-", "2">>),
      Attr(<<" ", "1", ".", "5">>),
      Attr(<<"3", "p", "t">>),
      Attr(<<"2", " ", "P", "C">>),
      Attr(<<"5", "0", "%">>),
      Attr(<<"4", "f", "o", "o">>),
      Attr(<<".", "5", "i", "n">>),
      Attr(<<"2", ".">>),
      Attr(<<"p", "x">>) }

ViewBoxes ==
    { Absent,
      Attr(<<>>),
      Attr(<<"0", " ", "0", " ", "4", " ", "2">>),
      Attr(<<"0", " ", "0", " ", "4">>),
      Attr(<<" ", "0", ",", "0", ",", " ", "5", ",", "3", " ">>),
      Attr(<<"0", " ", "0", " ", "4", " ", "2", " ", "1">>),
      Attr(<<"0", " ", "0", " ", "-", "1", " ", "9", "%">>),
      Attr(<<"0", ",", ",", "0", "\t", "2", "p", "t", " ", "x">>) }

Docs == [width : LengthAttrs, height : LengthAttrs, viewBox : ViewBoxes]

NoDoc == [width |-> Absent, height |-> Absent, viewBox |-> Absent]

\* Documents the fetched body of a /render request may hold.
PipelineDocs ==
    [width : {Absent, Attr(<<"3">>), Attr(<<"5", "0", "%">>)},
     height : {Absent, Attr(<<" ", "1", ".", "5">>)},
     viewBox : {Absent, Attr(<<"0", " ", "0", " ", "4", " ", "2">>),
                Attr(<<"0", " ", "0", " ", "4">>)}]

\* response.iter_content(chunk_size=8192) (main.py 73)
ChunkSize == 8192

ChunkSizes == {0, 1, ChunkSize}

\* config.Settings (config.py 21-37): the fields main.py reads.
ScaleSettings ==
    [min_output_width : OutputBounds, max_output_width : OutputBounds,
     max_output_height : OutputBounds, max_svg_bytes : {ChunkSize},
     prune_after_seconds : {1}]

PipelineSettings ==
    [min_output_width : {MaxBound}, max_output_width : {2, MaxBound},
     max_output_height : {3}, max_svg_bytes : {ChunkSize, ChunkSize + 1},
     prune_after_seconds : {1, 2}]

\* Intrinsic lengths handed to _compute_scale.
Lengths == {Norm(n, d) : n \in -1..MaxNum, d \in 1..MaxDen}

\* The API key header and the svg_url of the JSON payload.
Requests ==
    [key : {"absent", "wrong", "right"},
     url : {[present |-> FALSE, scheme |-> "", netloc |-> FALSE],
            [present |-> TRUE, scheme |-> "ftp", netloc |-> TRUE],
            [present |-> TRUE, scheme |-> "https", netloc |-> FALSE],
            [present |-> TRUE, scheme |-> "https", netloc |-> TRUE]}]

NoRequest == [key |-> "absent", url |-> [present |-> FALSE, scheme |-> "", netloc |-> FALSE]]

\* The Content-Length header: absent, not a number, or a number.
NoHeader == [present |-> FALSE, numeric |-> FALSE, value |-> 0]

ContentLengths(s) ==
    {NoHeader, [present |-> TRUE, numeric |-> FALSE, value |-> 0]}
    \cup {[present |-> TRUE, numeric |-> TRUE, value |-> v] :
            v \in {0, s.max_svg_bytes, s.max_svg_bytes + 1}}

NoHttp == [opened |-> FALSE, content_length |-> NoHeader]

\* Exception classes.  requests.RequestException derives from OSError.
EngineFailures == {"ValueError", "OSError", "Other"}
StoreFailures == {"GoogleAPIError", "OSError", "ValueError", "Other"}

NoExc == [stage |-> "none", kind |-> "none", reason |-> "none"]
NoCount == 0 - 1
NoResponse ==
    [status |-> 0, error |-> "none", png_url |-> FALSE,
     dimensions |-> NoSize, pruned_files |-> NoCount]

Blobs == {[has_time |-> FALSE, time_created |-> 0]}
         \cup {[has_time |-> TRUE, time_created |-> t] : t \in 0..MaxTime}

NoBlob == [has_time |-> FALSE, time_created |-> 0, deleted |-> FALSE]

(***************************************************************************)
(* render_svg (main.py 200-233): the outcome of its try block.             *)
(***************************************************************************)
ErrorResponse(status, error) ==
    [status |-> status, error |-> error, png_url |-> FALSE,
     dimensions |-> NoSize, pruned_files |-> NoCount]

\* The except clauses of render_svg (main.py 216-221).  An exception that no
\* clause names leaves the view function: the framework answers 500 itself.
render_svg_except(kind) ==
    IF kind = "ValueError" THEN ErrorResponse(400, "exc_message")
    ELSE IF kind \in {"GoogleAPIError", "OSError", "RequestException"}
         THEN ErrorResponse(500, "Failed to render SVG.")
         ELSE ErrorResponse(500, "unhandled")

\* Mutant: the download errors are not converted.
FetchExceptKeep(kind) == kind

\* The except clause of _fetch_svg (main.py 85-86).
_fetch_svg_except(kind) ==
    IF kind = "RequestException" THEN "ValueError" ELSE kind

_is_authorized(provided_key) == provided_key # "absent" /\ provided_key = "right"

_validate_url(url) == url.scheme \in {"http", "https"} /\ url.netloc

\* Mutant: the size of the chunk is compared, not the size of the buffer.
ChunkOverCeiling(buffered, chunk, s) == chunk > s.max_svg_bytes

\* buffer.tell() > settings.max_svg_bytes (main.py 77)
OverCeiling(buffered, chunk, s) == buffered > s.max_svg_bytes

\* Mutant: a blob at the cutoff counts as stale.
StaleOrAtCutoff(blob, cutoff) == blob.has_time /\ blob.time_created <= cutoff

\* The tests of the prune loop (main.py 188-190).
IsStale(blob, cutoff) == blob.has_time /\ blob.time_created < cutoff

\* Mutant: the signed URL is generated before the object is stored.
SignThenPut == <<"sign", "put">>

\* The store calls of _upload_png in order (main.py 169-176).
UploadSteps == <<"put", "sign">>

\* Mutant: the counter is reset when the pass is cut short.
PruneCountReset(count) == 0

\* The value _prune_old_files returns after the except clause (main.py 194-197).
PruneCountAfterFailure(count) == count

(***************************************************************************)
(* The /render request.                                                    *)
(***************************************************************************)
Init ==
    /\ settings \in PipelineSettings
    /\ req \in Requests
    /\ doc = NoDoc
    /\ intrinsic = NoSize
    /\ target = NoSize
    /\ pc = "start"
    /\ http = NoHttp
    /\ buffer = [len |-> 0, nonblank |-> FALSE]
    /\ chunksRead = 0
    /\ exc = NoExc
    /\ rasterized = FALSE
    /\ uploaded = FALSE
    /\ signed = FALSE
    /\ pruneRan = FALSE
    /\ now = 0
    /\ yielded = 0
    /\ lastBlob = NoBlob
    /\ deleted = 0
    /\ storeDeletes = 0
    /\ listFailed = FALSE
    /\ deleteFailed = FALSE
    /\ response = NoResponse

convertVars == <<doc, intrinsic, target, rasterized>>
uploadVars == <<uploaded, signed>>
pruneVars == <<pruneRan, now, yielded, lastBlob, deleted, storeDeletes,
               listFailed, deleteFailed>>
fetchVars == <<http, buffer, chunksRead>>

\* An exception of class kind leaves the try block of render_svg.
Raise(stage, kind, reason) ==
    /\ exc' = [stage |-> stage, kind |-> kind, reason |-> reason]
    /\ response' = render_svg_except(kind)
    /\ pc' = "done"

\* main.py 202-204
Unauthorized ==
    /\ pc = "start"
    /\ ~_is_authorized(req.key)
    /\ response' = ErrorResponse(401, "Unauthorized")
    /\ pc' = "done"
    /\ UNCHANGED <<settings, req, exc, convertVars, uploadVars, pruneVars, fetchVars>>

\* main.py 206-210
BadUrl ==
    /\ pc = "start"
    /\ _is_authorized(req.key)
    /\ ~req.url.present \/ ~_validate_url(req.url)
    /\ response' = ErrorResponse(400, "svg_url must be a valid HTTP(S) URL.")
    /\ pc' = "done"
    /\ UNCHANGED <<settings, req, exc, convertVars, uploadVars, pruneVars, fetchVars>>

\* _fetch_svg up to the body (main.py 60-72): the GET, raise_for_status and
\* the Content-Length test.
FetchOpen ==
    /\ pc = "start"
    /\ _is_authorized(req.key)
    /\ req.url.present /\ _validate_url(req.url)
    /\ \E transport_ok \in BOOLEAN, status_ok \in BOOLEAN,
          content_length \in ContentLengths(settings) :
         IF ~transport_ok
         THEN /\ Raise("fetch", _fetch_svg_except("RequestException"), "transport")
              /\ UNCHANGED http
         ELSE /\ http' = [opened |-> TRUE, content_length |-> content_length]
              /\ IF ~status_ok
                 THEN Raise("fetch", _fetch_svg_except("RequestException"), "status")
                 ELSE IF content_length.present /\ ~content_length.numeric
                 THEN Raise("fetch", _fetch_svg_except("ValueError"), "header")
                 ELSE IF content_length.present
                         /\ content_length.value > settings.max_svg_bytes
                 THEN Raise("fetch", _fetch_svg_except("ValueError"), "declared")
                 ELSE /\ pc' = "stream"
                      /\ UNCHANGED <<exc, response>>
    /\ UNCHANGED <<settings, req, buffer, chunksRead, convertVars, uploadVars, pruneVars>>

\* One iteration of the loop over iter_content (main.py 73-78).
FetchChunk ==
    /\ pc = "stream"
    /\ chunksRead < MaxChunks
    /\ \E size \in ChunkSizes, blank \in BOOLEAN :
         LET written == [len |-> buffer.len + size,
                         nonblank |-> buffer.nonblank \/ (size > 0 /\ ~blank)]
         IN  /\ chunksRead' = chunksRead + 1
             /\ IF size = 0
                THEN UNCHANGED <<buffer, pc, exc, response>>
                ELSE /\ buffer' = written
                     /\ IF OverCeiling(written.len, size, settings)
                        THEN Raise("fetch", _fetch_svg_except("ValueError"), "streamed")
                        ELSE UNCHANGED <<pc, exc, response>>
    /\ UNCHANGED <<settings, req, http, convertVars, uploadVars, pruneVars>>

\* The connection breaks or times out while the body is read.
FetchStreamError ==
    /\ pc = "stream"
    /\ Raise("fetch", _fetch_svg_except("RequestException"), "transport")
    /\ UNCHANGED <<settings, req, fetchVars, convertVars, uploadVars, pruneVars>>

\* The body ends (main.py 80-84): the response is closed and the buffer's
\* bytes are svg_bytes; the document the bytes hold is an input.
FetchEnd ==
    /\ pc = "stream"
    /\ IF ~buffer.nonblank
       THEN /\ Raise("fetch", _fetch_svg_except("ValueError"), "empty")
            /\ UNCHANGED <<doc, http, chunksRead>>
       ELSE /\ pc' = "fetched"
            /\ doc' \in PipelineDocs
            /\ http' = NoHttp
            /\ chunksRead' = 0
            /\ UNCHANGED <<exc, response>>
    /\ UNCHANGED <<settings, req, buffer, intrinsic, target, rasterized,
                   uploadVars, pruneVars>>

\* _convert_svg_to_png (main.py 148-161); svg_bytes is not read after it.
Convert ==
    /\ pc = "fetched"
    /\ buffer' = [len |-> 0, nonblank |-> FALSE]
    /\ \E parse \in {"ok"} \cup EngineFailures, render \in {"ok"} \cup EngineFailures :
         IF parse # "ok"
         THEN /\ Raise("parse", parse, "engine")
              /\ UNCHANGED <<intrinsic, target, rasterized>>
         ELSE LET size == _extract_svg_dimensions(doc)
              IN  /\ intrinsic' = size
                  /\ target' = _compute_scale(size[1], size[2], settings)
                  /\ rasterized' = TRUE
                  /\ IF render # "ok"
                     THEN Raise("render", render, "engine")
                     ELSE /\ pc' = "upload1"
                          /\ UNCHANGED <<exc, response>>
    /\ UNCHANGED <<settings, req, doc, http, chunksRead, uploadVars, pruneVars>>

\* One store call of _upload_png (main.py 164-178).
UploadCall(step, next) ==
    \E outcome \in {"ok"} \cup StoreFailures :
        IF outcome # "ok"
        THEN /\ Raise(step, outcome, "store")
             /\ UNCHANGED <<uploaded, signed>>
        ELSE /\ uploaded' = IF step = "put" THEN TRUE ELSE uploaded
             /\ signed' = IF step = "sign" THEN TRUE ELSE signed
             /\ pc' = next
             /\ UNCHANGED <<exc, response>>

UploadFirst ==
    /\ pc = "upload1"
    /\ UploadCall(UploadSteps[1], "upload2")
    /\ UNCHANGED <<settings, req, fetchVars, convertVars, pruneVars>>

UploadSecond ==
    /\ pc = "upload2"
    /\ UploadCall(UploadSteps[2], "uploaded")
    /\ UNCHANGED <<settings, req, fetchVars, convertVars, pruneVars>>

\* datetime.now and the entry of _prune_old_files (main.py 223-224, 182-184).
PruneStart ==
    /\ pc = "uploaded"
    /\ now' \in 0..MaxTime
    /\ pruneRan' = TRUE
    /\ pc' = "prune"
    /\ UNCHANGED <<settings, req, exc, response, fetchVars, convertVars, uploadVars,
                   yielded, lastBlob, deleted, storeDeletes, listFailed, deleteFailed>>

Cutoff == now - settings.prune_after_seconds

\* The response of a request whose try block raised nothing (main.py 226-233).
Respond(count) ==
    /\ response' = [status |-> 200, error |-> "none", png_url |-> signed,
                    dimensions |-> target, pruned_files |-> count]
    /\ pc' = "done"
    /\ UNCHANGED exc

\* except GoogleAPIError (main.py 194)
PruneCatches(kind) == kind = "GoogleAPIError"

\* An exception of class kind is raised inside the try block of _prune_old_files.
PruneRaise(kind) ==
    IF PruneCatches(kind)
    THEN Respond(PruneCountAfterFailure(deleted))
    ELSE /\ exc' = [stage |-> "prune", kind |-> kind, reason |-> "store"]
         /\ response' = ErrorResponse(500, "unhandled")
         /\ pc' = "done"

\* One iteration of the loop over list_blobs (main.py 187-193).
PruneNext ==
    /\ pc = "prune"
    /\ yielded < MaxBlobs
    /\ yielded' = yielded + 1
    /\ \E blob \in Blobs, outcome \in {"ok"} \cup StoreFailures :
         IF ~IsStale(blob, Cutoff)
         THEN /\ lastBlob' = [has_time |-> blob.has_time,
                              time_created |-> blob.time_created, deleted |-> FALSE]
              /\ UNCHANGED <<deleted, storeDeletes, deleteFailed, pc, exc, response>>
         ELSE IF outcome = "ok"
         THEN /\ lastBlob' = [has_time |-> blob.has_time,
                              time_created |-> blob.time_created, deleted |-> TRUE]
              /\ deleted' = deleted + 1
              /\ storeDeletes' = storeDeletes + 1
              /\ UNCHANGED <<deleteFailed, pc, exc, response>>
         ELSE /\ lastBlob' = [has_time |-> blob.has_time,
                              time_created |-> blob.time_created, deleted |-> FALSE]
              /\ deleteFailed' = TRUE
              /\ PruneRaise(outcome)
              /\ UNCHANGED <<deleted, storeDeletes>>
    /\ UNCHANGED <<settings, req, fetchVars, convertVars, uploadVars, pruneRan, now,
                   listFailed>>

\* list_blobs raises: on the first page or on a later one.
PruneListFail ==
    /\ pc = "prune"
    /\ listFailed' = TRUE
    /\ \E kind \in StoreFailures : PruneRaise(kind)
    /\ UNCHANGED <<settings, req, fetchVars, convertVars, uploadVars, pruneRan, now,
                   yielded, lastBlob, deleted, storeDeletes, deleteFailed>>

\* The listing ends (main.py 197, 226-233).
PruneEnd ==
    /\ pc = "prune"
    /\ Respond(deleted)
    /\ UNCHANGED <<settings, req, fetchVars, convertVars, uploadVars, pruneVars>>

Next ==
    \/ Unauthorized
    \/ BadUrl
    \/ FetchOpen
    \/ FetchChunk
    \/ FetchStreamError
    \/ FetchEnd
    \/ Convert
    \/ UploadFirst
    \/ UploadSecond
    \/ PruneStart
    \/ PruneNext
    \/ PruneListFail
    \/ PruneEnd

Spec == Init /\ [][Next]_vars

(***************************************************************************)
(* _compute_scale on its own: every size and every setting of the bounds.  *)
(***************************************************************************)
Idle ==
    /\ req = NoRequest
    /\ http = NoHttp
    /\ buffer = [len |-> 0, nonblank |-> FALSE]
    /\ chunksRead = 0
    /\ exc = NoExc
    /\ rasterized = FALSE
    /\ uploaded = FALSE
    /\ signed = FALSE
    /\ pruneRan = FALSE
    /\ now = 0
    /\ yielded = 0
    /\ lastBlob = NoBlob
    /\ deleted = 0
    /\ storeDeletes = 0
    /\ listFailed = FALSE
    /\ deleteFailed = FALSE
    /\ response = NoResponse

InitScale ==
    /\ settings \in ScaleSettings
    /\ doc = NoDoc
    /\ intrinsic \in Lengths \X Lengths
    /\ target = NoSize
    /\ pc = "scale"
    /\ Idle

ScaleOnly ==
    /\ pc = "scale"
    /\ target' = _compute_scale(intrinsic[1], intrinsic[2], settings)
    /\ pc' = "scaled"
    /\ UNCHANGED <<settings, doc, intrinsic, req, exc, response, fetchVars,
                   rasterized, uploadVars, pruneVars>>

NextScale == ScaleOnly

SpecScale == InitScale /\ [][NextScale]_vars

(***************************************************************************)
(* _extract_svg_dimensions on its own: every document of Docs.             *)
(***************************************************************************)
InitDims ==
    /\ settings \in PipelineSettings
    /\ settings.max_svg_bytes = ChunkSize
    /\ settings.prune_after_seconds = 1
    /\ doc \in Docs
    /\ intrinsic = NoSize
    /\ target = NoSize
    /\ pc = "dims"
    /\ Idle

ExtractOnly ==
    /\ pc = "dims"
    /\ intrinsic' = _extract_svg_dimensions(doc)
    /\ pc' = "extracted"
    /\ UNCHANGED <<settings, doc, target, req, exc, response, fetchVars,
                   rasterized, uploadVars, pruneVars>>

NextDims == ExtractOnly

SpecDims == InitDims /\ [][NextDims]_vars

(***************************************************************************)
(* Properties.                                                             *)
(***************************************************************************)
Zero == Rat(0)
IntMin(a, b) == IF a < b THEN a ELSE b

\* C1 (SpecScale): for every intrinsic size, the degenerate ones included, and
\* every setting of the three bounds >= 1, the pair _compute_scale returns
\* has width <= max_output_width and height <= max_output_height.
C1_MaxBoundsRespected ==
    pc = "scaled" =>
        /\ target[1] <= settings.max_output_width
        /\ target[2] <= settings.max_output_height

\* A degenerate size whose fallback canvas is wider than the height ceiling.
C1_Witness ==
    /\ pc = "scaled"
    /\ RLe(intrinsic[1], Zero)
    /\ settings.min_output_width > settings.max_output_height
    /\ settings.max_output_height < settings.max_output_width
    /\ target[2] = settings.max_output_height

\* C9 as claimed (SpecScale): when width and height are both <= 0,
\* _compute_scale returns (min_output_width, min_output_width) for any bounds.
C9_Original ==
    (pc = "scaled" /\ RLe(intrinsic[1], Zero) /\ RLe(intrinsic[2], Zero)) =>
        target = <<settings.min_output_width, settings.min_output_width>>

\* C9 as amended (SpecScale): when width and height are both <= 0 and the
\* three bounds are >= 1, _compute_scale returns the square canvas (m, m)
\* with m the least of min_output_width, max_output_width and
\* max_output_height: (min_output_width, min_output_width) exactly when
\* min_output_width exceeds neither maximum.
C9_Amended ==
    (pc = "scaled" /\ RLe(intrinsic[1], Zero) /\ RLe(intrinsic[2], Zero)) =>
        LET m == IntMin(settings.min_output_width,
                        IntMin(settings.max_output_width, settings.max_output_height))
        IN  target = <<m, m>>

C9_Witness ==
    /\ pc = "scaled"
    /\ RLe(intrinsic[1], Zero)
    /\ RLe(intrinsic[2], Zero)
    /\ settings.min_output_width <= settings.max_output_width
    /\ settings.min_output_width <= settings.max_output_height
    /\ settings.min_output_width > 1
    /\ target = <<settings.min_output_width, settings.min_output_width>>

\* The viewBox read as the claim reads it: a token starts at a non-separator
\* that follows a separator or opens the string.
TokenStarts(s) ==
    {i \in 1..Len(s) : ~IsSep(s[i]) /\ (i = 1 \/ IsSep(s[i - 1]))}

TokenAt(s, k) ==
    LET i == CHOOSE j \in TokenStarts(s) :
                 Cardinality({x \in TokenStarts(s) : x < j}) = k - 1
        e == CHOOSE j \in i..Len(s) :
                 /\ \A x \in i..j : ~IsSep(s[x])
                 /\ (j = Len(s) \/ IsSep(s[j + 1]))
    IN  SubSeq(s, i, e)

\* C10 (SpecDims): a dimension whose attribute parses to a positive length is
\* returned unchanged whatever the viewBox holds; a dimension that parses to
\* <= 0 is replaced by the length parsed from the 3rd (width) or 4th (height)
\* viewBox token exactly when the viewBox has exactly four tokens; with any
\* other token count both dimensions stay as parsed from the attributes.
C10_ViewBoxFallback ==
    pc = "extracted" =>
        LET w == _parse_svg_length(doc.width)
            h == _parse_svg_length(doc.height)
            vb == doc.viewBox.text
            four == doc.viewBox.present /\ Cardinality(TokenStarts(vb)) = 4
        IN  /\ RLt(Zero, w) => intrinsic[1] = w
            /\ RLt(Zero, h) => intrinsic[2] = h
            /\ (four /\ RLe(w, Zero)) =>
                   intrinsic[1] = _parse_svg_length(Attr(TokenAt(vb, 3)))
            /\ (four /\ RLe(h, Zero)) =>
                   intrinsic[2] = _parse_svg_length(Attr(TokenAt(vb, 4)))
            /\ ~four => intrinsic = <<w, h>>

\* A positive height kept and a missing width taken from a four-token viewBox.
C10_Witness ==
    /\ pc = "extracted"
    /\ doc.viewBox.present
    /\ Cardinality(TokenStarts(doc.viewBox.text)) = 4
    /\ RLe(_parse_svg_length(doc.width), Zero)
    /\ RLt(Zero, _parse_svg_length(doc.height))
    /\ RLt(Zero, intrinsic[1])
    /\ intrinsic[2] = _parse_svg_length(doc.height)
    /\ intrinsic[2] # _parse_svg_length(Attr(TokenAt(doc.viewBox.text, 4)))

\* C2 (Spec): whenever _fetch_svg fails, in any of its failure modes, /render
\* answers 400 and the request rasterizes nothing, uploads nothing and runs no
\* prune pass.
C2_FetchFailureIs400 ==
    exc.stage = "fetch" =>
        /\ pc = "done"
        /\ response.status = 400
        /\ ~rasterized
        /\ ~uploaded
        /\ ~signed
        /\ ~pruneRan

\* The connection breaks after a chunk of the body has been buffered.
C2_Witness ==
    /\ exc.stage = "fetch"
    /\ exc.reason = "transport"
    /\ buffer.len > 0
    /\ response.status = 400

\* C3 as claimed (Spec): whenever svg2png, upload_from_string or
\* generate_signed_url fails, /render answers 500 with the fixed message
\* "Failed to render SVG.".
C3_Original ==
    exc.stage \in {"render", "put", "sign"} =>
        /\ response.status = 500
        /\ response.error = "Failed to render SVG."

\* C4 as claimed (Spec): after fetch, render and upload succeeded, a failure of
\* the listing or of a delete in the prune pass never propagates: /render
\* answers 200 with the png_url and dimensions of the render.
C4_Original ==
    (pc = "done" /\ (listFailed \/ deleteFailed)) =>
        /\ response.status = 200
        /\ response.png_url
        /\ response.dimensions = target

\* C5 as claimed (Spec): if the listing fails during the prune pass, at
\* whatever point, the response reports pruned_files = 0.
C5_Original ==
    (pc = "done" /\ listFailed /\ response.status = 200) =>
        response.pruned_files = 0

\* C5 as amended (Spec): if the listing fails during the prune pass and the
\* request is answered 200, pruned_files is the number of objects the pass
\* deleted before the failure: 0 only when the listing fails before the first
\* deletion.
C5_Amended ==
    (pc = "done" /\ listFailed /\ response.status = 200) =>
        response.pruned_files = storeDeletes

C5_Witness ==
    /\ pc = "done"
    /\ listFailed
    /\ response.status = 200
    /\ storeDeletes > 0
    /\ response.pruned_files = storeDeletes

\* C6 as claimed (Spec): a request answered 400 or 500 has left no object in
\* the store.
C6_Original ==
    (pc = "done" /\ response.status \in {400, 500}) => ~uploaded

\* C6 as amended (Spec): a request answered 400 or 500 has left an object in
\* the store exactly when the failure came after upload_from_string returned,
\* that is in generate_signed_url or in the prune pass; a failure of the
\* validation, the fetch, the conversion or the upload itself leaves none.
C6_Amended ==
    (pc = "done" /\ response.status \in {400, 500}) =>
        (uploaded <=> exc.stage \in {"sign", "prune"})

C6_Witness ==
    /\ pc = "done"
    /\ response.status = 500
    /\ exc.stage = "put"
    /\ rasterized
    /\ ~uploaded

\* C7 (Spec): in every prune pass a blob is deleted only if it has a creation
\* time strictly earlier than now - prune_after_seconds; a blob without a
\* creation time and a blob created at the cutoff are never deleted.
C7_OnlyStaleDeleted ==
    lastBlob.deleted =>
        /\ lastBlob.has_time
        /\ lastBlob.time_created < now - settings.prune_after_seconds

C7_Witness ==
    /\ lastBlob.deleted
    /\ lastBlob.time_created + 1 = now - settings.prune_after_seconds
    /\ storeDeletes = 1

\* C8 (Spec): a declared Content-Length above max_svg_bytes fails the fetch
\* with no body chunk read; otherwise the fetch fails as soon as the buffered
\* bytes exceed max_svg_bytes, and only then, so the buffer never holds more
\* than max_svg_bytes plus one chunk and a fetch that succeeds returns at most
\* max_svg_bytes bytes.
C8_BoundedFetch ==
    LET ceiling == settings.max_svg_bytes
        declared == http.content_length
    IN  /\ buffer.len <= ceiling + ChunkSize
        /\ pc = "fetched" => buffer.len <= ceiling
        /\ buffer.len > ceiling =>
               (pc = "done" /\ exc.reason = "streamed" /\ response.status = 400)
        /\ exc.reason = "streamed" => buffer.len > ceiling
        /\ (http.opened /\ declared.numeric /\ declared.value > ceiling) =>
               (pc = "done" /\ exc.stage = "fetch" /\ chunksRead = 0
                /\ buffer.len = 0)

\* A body of exactly max_svg_bytes bytes is returned.
C8_Witness ==
    /\ pc = "fetched"
    /\ buffer.len = settings.max_svg_bytes

====
